---- MODULE Spec2Model ----
(***************************************************************************)
(* ModelFactory (tmuxbot/model/factory.py): resolution of an agent name    *)
(* to a provider-backed model, trying the agent's primary profile and then *)
(* its fallback profiles in order.                                         *)
(*                                                                         *)
(* The configuration files (tmuxbot/config/settings.py and                 *)
(* tmuxbot/utils/config_migration.py): load_config, save_config_template   *)
(* and migrate_config over the XDG and the legacy config.yaml.             *)
(*                                                                         *)
(* Optional values (Python None | value) are sequences of length 0 or 1.   *)
(***************************************************************************)
EXTENDS Integers, Sequences, FiniteSets

VARIABLES
    config,          \* self.config: [profiles, agents]
    pc,              \* "new" | "idle" | "loop" | "returned" | "raised"
    agent_type,      \* argument of the create_model call in progress
    agent_config,    \* local of create_model (Optional)
    profile_names,   \* local of create_model
    idx,             \* position of the for loop in profile_names (1-based)
    last_error,      \* local of create_model (Optional exception)
    result,          \* value returned by create_model (Optional model)
    escaped,         \* exception that left create_model (Optional)
    log,             \* logger records emitted by the call in progress
    init_log,        \* logger records emitted by __init__
    attempted,       \* profile names passed to _create_model_for_profile
    outcomes,        \* what happened at each attempt
    constructed,     \* profile names whose provider create_model was invoked
    ncalls,          \* number of create_model calls made on the factory so far
    frames,          \* concurrent callers: the locals of each caller's create_model
    fs,              \* the files: XDG config dir, XDG config.yaml, ./config.yaml, its backup
    env,             \* os.environ: TMUXBOT_MAX_HISTORY, TMUXBOT_CONVERSATION_TIMEOUT
    op               \* the last call of settings.py / config_migration.py and what it did

vars == <<config, pc, agent_type, agent_config, profile_names, idx, last_error,
          result, escaped, log, init_log, attempted, outcomes, constructed,
          ncalls, frames, fs, env, op>>

FileVars == <<fs, env, op>>

(* ---------------------------------------------------------------- bounds *)

MaxFallbacks == 2

\* create_model calls made one after the other on one factory.
MaxCalls == 2

\* Profile names an agent may reference, and those config.profiles may define
\* ("Z" is always a dangling reference).
ProfileNameSet == {"A", "B", "Z"}
DefinedProfileNameSet == {"A", "B"}
AgentNameSet == {"x"}
AgentArgs == {"x", ""}
Providers == {"openai"}

(* -------------------------------------------------------------- optional *)

None == <<>>
Some(v) == <<v>>
IsNone(o) == o = <<>>
Get(o) == o[1]

(* ------------------------------------------------------- configuration *)

RECURSIVE SeqsUpTo(_, _)
SeqsUpTo(S, n) ==
    IF n = 0 THEN {<<>>}
    ELSE LET shorter == SeqsUpTo(S, n - 1)
         IN  shorter \cup {Append(s, x) : s \in {t \in shorter : Len(t) = n - 1}, x \in S}

ProfileConfig == [provider : Providers]

AgentConfig ==
    [profile : ProfileNameSet,
     fallbacks : {None} \cup {Some(l) : l \in SeqsUpTo(ProfileNameSet, MaxFallbacks)}]

PartialMaps(K, V) == UNION {[D -> V] : D \in SUBSET K}

Config == [profiles : PartialMaps(DefinedProfileNameSet, ProfileConfig),
           agents : PartialMaps(AgentNameSet, AgentConfig)]

\* Python truthiness of Optional[List[str]]: None and [] are both falsy.
Truthy(opt) == ~IsNone(opt) /\ Get(opt) # <<>>

\* dict.get(key): the value, or None when the key is absent.
DictGet(d, k) == IF k \in DOMAIN d THEN Some(d[k]) ELSE None

(* ---------------------------------------------------- logs, exceptions *)

\* One logger call: its level, which message it is, and what the message names.
LogRecord(level, event) ==
    [level |-> level, event |-> event, agent |-> "", profile |-> "",
     fallback |-> "", provider |-> "", err |-> None]

\* An exception object. `at` is the attempt that produced it (object identity);
\* cause / cause_msg are the exception it was raised `from`.
Exc(type, msg, provider, at) ==
    [type |-> type, msg |-> msg, provider |-> provider, at |-> at,
     cause |-> "", cause_msg |-> ""]

RaisedFrom(e, cause) == [e EXCEPT !.cause = cause.type, !.cause_msg = cause.msg]

\* The handle a provider's create_model(profile) returns.
Model(profile_name, provider, at) ==
    [profile |-> profile_name, provider |-> provider, at |-> at]

(* ------------------------------------------------------------ provider *)

\* What the provider side does at one attempt on an existing profile:
\* importlib.import_module fails; the module has no create_model attribute;
\* the attribute is None; create_model(profile) raises ImportError,
\* AttributeError or another Exception; it returns None; it returns a model.
Outcomes ==
    {"import_fails", "attr_missing", "attr_none", "raises_ImportError",
     "raises_AttributeError", "raises_Exception", "returns_none", "returns_model"}

\* getattr(provider_module, "create_model", None)
GetattrCreateModel(outcome) ==
    IF outcome \in {"attr_missing", "attr_none"} THEN None ELSE Some("create_model")

\* The body of the try block: [raised, value, logs, invoked].
TryBody(profile_name, provider, outcome, at) ==
    LET imported == [LogRecord("debug", "ImportedProvider") EXCEPT !.provider = provider]
        base == [raised |-> None, value |-> None, logs |-> <<imported>>, invoked |-> FALSE]
    IN  IF outcome = "import_fails"
        THEN [base EXCEPT !.raised = Some(Exc("ImportError", "import_module", provider, at)),
                          !.logs = <<>>]
        ELSE IF IsNone(GetattrCreateModel(outcome))
        THEN [base EXCEPT !.raised = Some(Exc("ValueError", "NoCreateModel", provider, at))]
        ELSE IF outcome = "raises_ImportError"
        THEN [base EXCEPT !.raised = Some(Exc("ImportError", "create_model", provider, at)),
                          !.invoked = TRUE]
        ELSE IF outcome = "raises_AttributeError"
        THEN [base EXCEPT !.raised = Some(Exc("AttributeError", "create_model", provider, at)),
                          !.invoked = TRUE]
        ELSE IF outcome = "raises_Exception"
        THEN [base EXCEPT !.raised = Some(Exc("Exception", "create_model", provider, at)),
                          !.invoked = TRUE]
        ELSE IF outcome = "returns_none"
        THEN [base EXCEPT !.invoked = TRUE]
        ELSE [base EXCEPT !.value = Some(Model(profile_name, provider, at)),
                          !.invoked = TRUE]

\* Which except clause of _create_model_for_profile takes an exception:
\* except ImportError, then except AttributeError, then except Exception.
ExceptClause(e) ==
    IF e.type = "ImportError" THEN "ImportError"
    ELSE IF e.type = "AttributeError" THEN "AttributeError"
    ELSE "Exception"

\* What the taken except clause logs and raises: [err, logs].
HandleException(e, provider, at) ==
    LET clause == ExceptClause(e)
    IN  IF clause = "ImportError"
        THEN [err |-> RaisedFrom(Exc("ValueError", "UnsupportedProvider", provider, at), e),
              logs |-> <<[LogRecord("error", "UnsupportedProvider") EXCEPT !.provider = provider]>>]
        ELSE IF clause = "AttributeError"
        THEN [err |-> RaisedFrom(Exc("ValueError", "NoCreateModel", provider, at), e),
              logs |-> <<[LogRecord("error", "NoCreateModel") EXCEPT !.provider = provider]>>]
        ELSE [err |-> RaisedFrom(Exc("RuntimeError", "UnexpectedError", provider, at), e),
              logs |-> <<[LogRecord("error", "UnexpectedError") EXCEPT
                             !.provider = provider, !.err = Some(e)]>>]

\* A variant of OnProfileMissing that raises instead of returning None.
OnProfileMissingRaises(profile_name, at) ==
    [kind |-> "raise", model |-> None,
     err |-> Some(Exc("ValueError", "ProfileNotFound", "", at)),
     logs |-> <<[LogRecord("error", "ProfileNotFound") EXCEPT !.profile = profile_name]>>,
     path |-> "profile_missing", invoked |-> FALSE]

\* `if profile is None`: log "Profile not found" and return None.
OnProfileMissing(profile_name, at) ==
    [kind |-> "return", model |-> None, err |-> None,
     logs |-> <<[LogRecord("error", "ProfileNotFound") EXCEPT !.profile = profile_name]>>,
     path |-> "profile_missing", invoked |-> FALSE]

\* _create_model_for_profile(profile_name) at attempt `at`, the provider side
\* behaving as `outcome`: [kind: "return" | "raise", model, err, logs, path, invoked].
\* path is what happened: "profile_missing" or the provider outcome.
CreateModelForProfile(profiles, profile_name, outcome, at) ==
    LET profile == DictGet(profiles, profile_name)
        ret == [kind |-> "return", model |-> None, err |-> None, logs |-> <<>>,
                path |-> outcome, invoked |-> FALSE]
    IN  IF IsNone(profile)
        THEN OnProfileMissing(profile_name, at)
        ELSE LET provider_name == Get(profile).provider
                 attempting == [LogRecord("debug", "AttemptingCreate") EXCEPT
                                   !.provider = provider_name]
                 body == TryBody(profile_name, provider_name, outcome, at)
             IN  IF IsNone(body.raised)
                 THEN [ret EXCEPT !.model = body.value,
                                  !.logs = <<attempting>> \o body.logs,
                                  !.invoked = body.invoked]
                 ELSE LET h == HandleException(Get(body.raised), provider_name, at)
                      IN  [ret EXCEPT !.kind = "raise",
                                      !.err = Some(h.err),
                                      !.logs = <<attempting>> \o body.logs \o h.logs,
                                      !.invoked = body.invoked]

(* ------------------------------------------------------- ModelFactory *)

\* A set as a sequence, in some fixed order (the iteration order of a dict).
RECURSIVE SetToSeq(_)
SetToSeq(S) ==
    IF S = {} THEN <<>>
    ELSE LET x == CHOOSE y \in S : TRUE IN <<x>> \o SetToSeq(S \ {x})

\* A variant of FallbackWarnings that stops at the first missing fallback.
RECURSIVE FallbackWarningsFirstOnly(_, _, _)
FallbackWarningsFirstOnly(agent_name, fallbacks, profiles) ==
    IF fallbacks = <<>> THEN <<>>
    ELSE IF Head(fallbacks) \notin DOMAIN profiles
    THEN <<[LogRecord("warning", "FallbackNotDefined") EXCEPT
               !.agent = agent_name, !.fallback = Head(fallbacks)]>>
    ELSE FallbackWarningsFirstOnly(agent_name, Tail(fallbacks), profiles)

\* The warnings of one agent in _validate_fallback_configuration.
RECURSIVE FallbackWarnings(_, _, _)
FallbackWarnings(agent_name, fallbacks, profiles) ==
    IF fallbacks = <<>> THEN <<>>
    ELSE LET fallback_profile == Head(fallbacks)
             rest == FallbackWarnings(agent_name, Tail(fallbacks), profiles)
         IN  IF fallback_profile \notin DOMAIN profiles
             THEN <<[LogRecord("warning", "FallbackNotDefined") EXCEPT
                        !.agent = agent_name, !.fallback = fallback_profile]>> \o rest
             ELSE rest

RECURSIVE ValidateAgents(_, _)
ValidateAgents(agent_names, cfg) ==
    IF agent_names = <<>> THEN <<>>
    ELSE LET agent_name == Head(agent_names)
             ac == cfg.agents[agent_name]
             mine == IF Truthy(ac.fallbacks)
                     THEN FallbackWarnings(agent_name, Get(ac.fallbacks), cfg.profiles)
                     ELSE <<>>
         IN  mine \o ValidateAgents(Tail(agent_names), cfg)

\* _validate_fallback_configuration: the warnings it logs.
ValidateFallbackConfiguration(cfg) ==
    ValidateAgents(SetToSeq(DOMAIN cfg.agents), cfg)

\* A variant of BuildProfileNames that never adds the fallbacks.
BuildProfileNamesPrimaryOnly(ac) == <<ac.profile>>

RECURSIVE Dedup(_, _)
Dedup(names, seen) ==
    IF names = <<>> THEN <<>>
    ELSE IF Head(names) \in seen THEN Dedup(Tail(names), seen)
    ELSE <<Head(names)>> \o Dedup(Tail(names), seen \cup {Head(names)})

\* A variant of BuildProfileNames that drops repeated names.
BuildProfileNamesDedup(ac) ==
    IF Truthy(ac.fallbacks) THEN Dedup(<<ac.profile>> \o Get(ac.fallbacks), {})
    ELSE <<ac.profile>>

\* A variant of BuildProfileNames that lists the primary a second time when
\* the agent has no fallbacks.
BuildProfileNamesRetryPrimary(ac) ==
    IF Truthy(ac.fallbacks) THEN <<ac.profile>> \o Get(ac.fallbacks)
    ELSE <<ac.profile, ac.profile>>

\* profile_names = [agent_config.profile], extended by the fallbacks if truthy.
BuildProfileNames(ac) ==
    IF Truthy(ac.fallbacks) THEN <<ac.profile>> \o Get(ac.fallbacks) ELSE <<ac.profile>>

\* `except Exception` in create_model: every exception type that
\* _create_model_for_profile raises derives from Exception.
ExceptionSubclasses ==
    {"Exception", "ValueError", "RuntimeError", "ImportError", "AttributeError"}

\* A variant of IsCaught for `except ValueError`.
IsCaughtOnlyValueError(e) == e.type = "ValueError"

IsCaught(e) == e.type \in ExceptionSubclasses

\* A variant of Control without the `return model` of a successful attempt.
ControlNoEarlyReturn(r) ==
    IF r.kind = "return" THEN "next"
    ELSE IF IsCaught(Get(r.err)) THEN "except" ELSE "propagate"

\* A variant of Control whose `return model` is outside `if model is not None`.
ControlReturnsNone(r) ==
    IF r.kind = "return" THEN "return"
    ELSE IF IsCaught(Get(r.err)) THEN "except" ELSE "propagate"

\* What one iteration of the for loop does with the attempt's result r:
\* "return" the model, go to the "next" candidate after a None, record the
\* exception in the "except" clause, or let it "propagate".
Control(r) ==
    IF r.kind = "return"
    THEN IF ~IsNone(r.model) THEN "return" ELSE "next"
    ELSE IF IsCaught(Get(r.err)) THEN "except" ELSE "propagate"

\* A variant of SuccessLog that warns on every success.
SuccessLogAlwaysWarns(profile_name, ac, agent) ==
    [LogRecord("warning", "PrimaryFailedUsingFallback") EXCEPT
        !.profile = ac.profile, !.fallback = profile_name, !.agent = agent]

\* The record logged when a candidate produced a model.
SuccessLog(profile_name, ac, agent) ==
    IF profile_name # ac.profile
    THEN [LogRecord("warning", "PrimaryFailedUsingFallback") EXCEPT
             !.profile = ac.profile, !.fallback = profile_name, !.agent = agent]
    ELSE [LogRecord("debug", "UsingPrimary") EXCEPT
             !.profile = profile_name, !.agent = agent]

\* The warning logged by the except clause of the loop.
ProfileFailedLog(profile_name, agent, e) ==
    [LogRecord("warning", "ProfileFailed") EXCEPT
        !.profile = profile_name, !.agent = agent, !.err = Some(e)]

\* A variant of FinalLog that never attaches the last error.
FinalLogWithoutError(agent, le) ==
    [LogRecord("error", "NoValidProfiles") EXCEPT !.agent = agent]

\* The error logged after the loop: with the last error if there is one.
FinalLog(agent, le) ==
    IF ~IsNone(le)
    THEN [LogRecord("error", "AllProfilesFailed") EXCEPT !.agent = agent, !.err = le]
    ELSE [LogRecord("error", "NoValidProfiles") EXCEPT !.agent = agent]

\* A variant of FreshLastError that keeps the error of the call before.
FreshLastErrorCarriedOver(previous) == previous

\* `last_error = None`: each call starts without a last error, whatever the
\* call before left.
FreshLastError(previous) == None

\* A variant of ConfigAfterBuild for a candidate list that is the agent's own
\* fallbacks list with the primary inserted in front.
ConfigAfterBuildAliased(cfg, a) ==
    IF a \in DOMAIN cfg.agents /\ Truthy(cfg.agents[a].fallbacks)
    THEN [cfg EXCEPT !.agents[a].fallbacks =
             Some(<<cfg.agents[a].profile>> \o Get(cfg.agents[a].fallbacks))]
    ELSE cfg

\* self.config after create_model built its candidate list: profile_names is
\* a new list, and extend() writes to it, reading agent_config.fallbacks.
ConfigAfterBuild(cfg, a) == cfg

\* A variant of AgentNotFoundLog at warning level.
AgentNotFoundLogAsWarning(agent) ==
    [LogRecord("warning", "AgentNotFound") EXCEPT !.agent = agent]

\* logger.error("Agent configuration not found: ...")
AgentNotFoundLog(agent) ==
    [LogRecord("error", "AgentNotFound") EXCEPT !.agent = agent]

(* -------------------------------------------------------------- actions *)

Init ==
    /\ config \in Config
    /\ pc = "new"
    /\ agent_type = ""
    /\ agent_config = None
    /\ profile_names = <<>>
    /\ idx = 1
    /\ last_error = None
    /\ result = None
    /\ escaped = None
    /\ log = <<>>
    /\ init_log = <<>>
    /\ attempted = <<>>
    /\ outcomes = <<>>
    /\ constructed = <<>>
    /\ ncalls = 0
    /\ frames = <<>>
    /\ fs = <<>>
    /\ env = <<>>
    /\ op = <<>>

\* A variant of ModelFactoryInit whose validation raises on a dangling fallback.
ModelFactoryInitStrict ==
    /\ pc = "new"
    /\ init_log' = ValidateFallbackConfiguration(config)
    /\ IF init_log' = <<>>
       THEN pc' = "idle" /\ escaped' = escaped
       ELSE pc' = "raised" /\ escaped' = Some(Exc("ValueError", "FallbackNotDefined", "", 0))
    /\ UNCHANGED <<config, agent_type, agent_config, profile_names, idx, last_error,
                   result, log, attempted, outcomes, constructed, ncalls, frames,
                   fs, env, op>>

\* ModelFactory.__init__
ModelFactoryInit ==
    /\ pc = "new"
    /\ init_log' = ValidateFallbackConfiguration(config)
    /\ pc' = "idle"
    /\ UNCHANGED <<config, agent_type, agent_config, profile_names, idx, last_error,
                   result, escaped, log, attempted, outcomes, constructed,
                   ncalls, frames, fs, env, op>>

\* create_model(agent_type), up to the for loop.
CreateModelCall(a) ==
    /\ pc \in {"idle", "returned", "raised"}
    /\ ncalls < MaxCalls
    /\ ncalls' = ncalls + 1
    /\ agent_type' = a
    /\ agent_config' = DictGet(config.agents, a)
    /\ idx' = 1
    /\ last_error' = FreshLastError(last_error)
    /\ result' = None
    /\ escaped' = None
    /\ attempted' = <<>>
    /\ outcomes' = <<>>
    /\ constructed' = <<>>
    /\ IF IsNone(agent_config')
       THEN /\ log' = <<AgentNotFoundLog(a)>>
            /\ profile_names' = <<>>
            /\ pc' = "returned"
       ELSE /\ log' = <<>>
            /\ profile_names' = BuildProfileNames(Get(agent_config'))
            /\ pc' = "loop"
    /\ config' = ConfigAfterBuild(config, a)
    /\ UNCHANGED <<init_log, frames, fs, env, op>>

\* One iteration of `for profile_name in profile_names`.
Attempt(outcome) ==
    /\ pc = "loop"
    /\ idx <= Len(profile_names)
    /\ LET profile_name == profile_names[idx]
           ac == Get(agent_config)
           r == CreateModelForProfile(config.profiles, profile_name, outcome, idx)
           c == Control(r)
       IN  /\ attempted' = Append(attempted, profile_name)
           /\ outcomes' = Append(outcomes, r.path)
           /\ constructed' = IF r.invoked THEN Append(constructed, profile_name)
                             ELSE constructed
           /\ IF c = "return"
              THEN /\ log' = log \o r.logs \o <<SuccessLog(profile_name, ac, agent_type)>>
                   /\ result' = r.model
                   /\ pc' = "returned"
                   /\ UNCHANGED <<idx, last_error, escaped>>
              ELSE IF c = "next"
              THEN /\ log' = log \o r.logs
                   /\ idx' = idx + 1
                   /\ UNCHANGED <<pc, result, last_error, escaped>>
              ELSE IF c = "except"
              THEN /\ last_error' = r.err
                   /\ log' = log \o r.logs
                                 \o <<ProfileFailedLog(profile_name, agent_type, Get(r.err))>>
                   /\ idx' = idx + 1
                   /\ UNCHANGED <<pc, result, escaped>>
              ELSE /\ escaped' = r.err
                   /\ log' = log \o r.logs
                   /\ pc' = "raised"
                   /\ UNCHANGED <<idx, result, last_error>>
    /\ UNCHANGED <<config, agent_type, agent_config, profile_names, init_log,
                   ncalls, frames, fs, env, op>>

\* A variant of Exhausted that never leaves the loop.
ExhaustedStuck ==
    /\ pc = "loop"
    /\ idx > Len(profile_names)
    /\ UNCHANGED vars

\* The end of create_model, reached when the loop runs out of candidates.
Exhausted ==
    /\ pc = "loop"
    /\ idx > Len(profile_names)
    /\ log' = Append(log, FinalLog(agent_type, last_error))
    /\ result' = None
    /\ pc' = "returned"
    /\ UNCHANGED <<config, agent_type, agent_config, profile_names, idx, last_error,
                   escaped, init_log, attempted, outcomes, constructed,
                   ncalls, frames, fs, env, op>>

Next ==
    \/ ModelFactoryInit
    \/ \E a \in AgentArgs : CreateModelCall(a)
    \/ \E outcome \in Outcomes : Attempt(outcome)
    \/ Exhausted

Spec == Init /\ [][Next]_vars

\* A call that has entered the loop is run to its end: every provider
\* construction returns or raises, and the interpreter then takes the next
\* iteration or leaves the loop. The run is the factory's construction and
\* its first create_model call.
FirstCall(a) == ncalls = 0 /\ CreateModelCall(a)

FairNext ==
    \/ ModelFactoryInit
    \/ \E a \in AgentArgs : FirstCall(a)
    \/ \E outcome \in Outcomes : Attempt(outcome)
    \/ Exhausted

FairSpec ==
    /\ Init
    /\ [][FairNext]_vars
    /\ WF_vars(\E outcome \in Outcomes : Attempt(outcome))
    /\ WF_vars(Exhausted)

(* --------------------------------------------------------------- claims *)

\* The call in progress (or just finished) names an agent of the configuration.
AgentKnown == pc \in {"loop", "returned", "raised"} /\ agent_type \in DOMAIN config.agents

\* [primary] + fallbacks of the called agent, read off the configuration.
CandidateList ==
    LET ac == config.agents[agent_type]
    IN  <<ac.profile>> \o (IF ac.fallbacks = None THEN <<>> ELSE ac.fallbacks[1])

\* The provider outcomes in which _create_model_for_profile raises.
RaisingOutcomes ==
    {"import_fails", "attr_missing", "attr_none", "raises_ImportError",
     "raises_AttributeError", "raises_Exception"}

Indexes(seq) == 1..Len(seq)

Min(S) == CHOOSE i \in S : \A j \in S : i <= j
Max(S) == CHOOSE i \in S : \A j \in S : j <= i

\* The model the provider hands out for candidate i of the called agent.
ModelOfCandidate(i) ==
    Some([profile |-> CandidateList[i],
          provider |-> config.profiles[CandidateList[i]].provider,
          at |-> i])

FinalRecord == log[Len(log)]

C2_ModelIffSomeCandidateSucceeds ==
    (pc = "returned" /\ AgentKnown) =>
        LET S == {i \in Indexes(outcomes) :
                     /\ CandidateList[i] \in DOMAIN config.profiles
                     /\ outcomes[i] = "returns_model"}
        IN  /\ ~IsNone(result) <=> S # {}
            /\ S # {} => result = ModelOfCandidate(Min(S))
            /\ S = {} => Len(outcomes) = Len(CandidateList)

C2_Witness ==
    /\ pc = "returned"
    /\ AgentKnown
    /\ outcomes = <<"profile_missing", "returns_none", "returns_model">>
    /\ result = ModelOfCandidate(3)

\* C3: the profile names attempted during a call are always a prefix of
\* [agent.profile] + agent.fallbacks in the declared order, duplicates kept.
C3_AttemptsArePrefixOfDeclaredOrder ==
    AgentKnown =>
        /\ Len(attempted) <= Len(CandidateList)
        /\ attempted = SubSeq(CandidateList, 1, Len(attempted))
        /\ pc = "loop" => Len(attempted) = idx - 1

C3_Witness ==
    /\ pc = "returned"
    /\ AgentKnown
    /\ config.agents[agent_type].profile = "A"
    /\ config.agents[agent_type].fallbacks = Some(<<"B", "B">>)
    /\ attempted = <<"A", "B", "B">>
    /\ outcomes[2] # "profile_missing"

\* C4: once a candidate's construction returned a model the call has returned:
\* the successful attempt is the last attempt of the call, nothing after it is
\* looked up or constructed, and the call's result is that model.
C4_ReturnsAtFirstSuccess ==
    \A i \in Indexes(outcomes) :
        outcomes[i] = "returns_model" =>
            /\ i = Len(outcomes)
            /\ Len(attempted) = i
            /\ pc = "returned"
            /\ result = ModelOfCandidate(i)
            /\ constructed # <<>>
            /\ constructed[Len(constructed)] = CandidateList[i]

C4_Witness ==
    /\ pc = "returned"
    /\ outcomes = <<"raises_Exception", "returns_model">>
    /\ Len(CandidateList) = 3

\* C5: for an agent name that is no key of config.agents (the empty string
\* included) create_model returns None, logs exactly one record, the error
\* 'Agent configuration not found: <name>', and attempts no profile lookup and
\* no provider construction.
C5_UnknownAgent ==
    (pc \in {"loop", "returned", "raised"} /\ agent_type \notin DOMAIN config.agents) =>
        /\ pc = "returned"
        /\ IsNone(result)
        /\ Len(log) = 1
        /\ log[1].level = "error"
        /\ log[1].event = "AgentNotFound"
        /\ log[1].agent = agent_type
        /\ attempted = <<>>
        /\ outcomes = <<>>
        /\ constructed = <<>>

C5_Witness ==
    /\ pc = "returned"
    /\ agent_type = ""
    /\ DOMAIN config.agents # {}
    /\ Len(log) = 1

\* C6: when the primary profile exists and its construction returns a model,
\* create_model returns that model after exactly one attempt and one provider
\* construction, however many fallbacks are configured.
C6_PrimarySuccessIsSingleAttempt ==
    (outcomes # <<>> /\ outcomes[1] = "returns_model") =>
        /\ pc = "returned"
        /\ result = ModelOfCandidate(1)
        /\ attempted = <<config.agents[agent_type].profile>>
        /\ outcomes = <<"returns_model">>
        /\ constructed = <<config.agents[agent_type].profile>>

C6_Witness ==
    /\ pc = "returned"
    /\ outcomes = <<"returns_model">>
    /\ Len(CandidateList) = 3
    /\ ~IsNone(result)

\* C7: when the primary fails and the first fallback returns a model,
\* create_model returns the fallback's model after exactly two attempts
\* (primary, then the fallback) and has logged a warning naming the failed
\* primary profile and the succeeding fallback profile.
C7_FallbackSuccessWarnsWithBothNames ==
    (pc = "returned" /\ AgentKnown /\ Len(outcomes) >= 2
        /\ outcomes[1] # "returns_model" /\ outcomes[2] = "returns_model") =>
        /\ result = ModelOfCandidate(2)
        /\ attempted = <<CandidateList[1], CandidateList[2]>>
        /\ \E k \in Indexes(log) :
              /\ log[k].level = "warning"
              /\ {CandidateList[1], CandidateList[2]} \subseteq {log[k].profile, log[k].fallback}

C9_MissingProfileDoesNotAbort ==
    AgentKnown =>
        \A i \in Indexes(attempted) :
            CandidateList[i] \notin DOMAIN config.profiles =>
                /\ outcomes[i] = "profile_missing"
                /\ pc # "raised"
                /\ \A k \in Indexes(constructed) : constructed[k] # CandidateList[i]
                /\ pc = "returned" =>
                      /\ i < Len(CandidateList) => Len(attempted) > i
                      /\ IsNone(result) => attempted = CandidateList
                      /\ outcomes[Len(outcomes)] = "returns_model" =>
                            result = ModelOfCandidate(Len(outcomes))

C9_Witness ==
    /\ pc = "returned"
    /\ AgentKnown
    /\ "Z" \notin DOMAIN config.profiles
    /\ attempted = <<"Z", "A">>
    /\ outcomes = <<"profile_missing", "returns_model">>
    /\ result = ModelOfCandidate(2)

\* C10 as stated: when every candidate fails, the error attached to the final
\* exhaustion log is the error of the most recently failed candidate, a
\* profile-not-found candidate recording its error like a provider failure.
C10_LastErrorIsOfLastFailedCandidate ==
    (pc = "returned" /\ AgentKnown /\ IsNone(result)
        /\ outcomes[Len(outcomes)] \in RaisingOutcomes \cup {"profile_missing"}) =>
        /\ FinalRecord.err # None
        /\ FinalRecord.err[1].at = Len(outcomes)

\* C10 (amended): when every candidate fails, the error attached to the final
\* exhaustion log is the exception of the most recent candidate that raised;
\* a profile-not-found candidate, like a provider returning None, leaves the
\* last error as it was, and when no candidate raised the final error is
\* 'No valid profiles found' with no error attached.
C10_LastErrorIsOfLastRaisingCandidate ==
    (pc = "returned" /\ AgentKnown /\ IsNone(result)) =>
        LET R == {i \in Indexes(outcomes) : outcomes[i] \in RaisingOutcomes}
        IN  /\ R = {} => (FinalRecord.event = "NoValidProfiles" /\ FinalRecord.err = None)
            /\ R # {} =>
                  /\ FinalRecord.event = "AllProfilesFailed"
                  /\ FinalRecord.err # None
                  /\ FinalRecord.err[1].at = Max(R)
                  /\ FinalRecord.err[1].type \in {"ValueError", "RuntimeError"}
                  /\ FinalRecord.err[1].msg # "ProfileNotFound"

C10_Witness ==
    /\ pc = "returned"
    /\ AgentKnown
    /\ attempted = <<"A", "Z">>
    /\ outcomes = <<"raises_Exception", "profile_missing">>
    /\ FinalRecord.event = "AllProfilesFailed"
    /\ FinalRecord.err[1].at = 1
    /\ FinalRecord.err[1].type = "RuntimeError"

\* Positions in the log of the per-candidate failure warnings.
ProfileFailedAt == {k \in Indexes(log) : log[k].event = "ProfileFailed"}

\* C11: on success the 'primary failed, using fallback' warning is emitted iff
\* the successful candidate's index in [primary] + fallbacks is greater than 0
\* (here: 1-based position greater than 1), and the 'using primary profile'
\* debug note iff it is the first, also when the primary's name is repeated
\* among the fallbacks and succeeds only at the later attempt.
C11_SuccessLogFollowsIndex ==
    (pc = "returned" /\ AgentKnown /\ ~IsNone(result)) =>
        LET i == Len(outcomes)
        IN  /\ (\E k \in Indexes(log) : log[k].event = "PrimaryFailedUsingFallback") <=> i > 1
            /\ (\E k \in Indexes(log) : log[k].event = "UsingPrimary") <=> i = 1

\* C12 as stated: every failed candidate, whether it raised or returned null,
\* has caused one warning naming the failed profile and the agent.
C12_EveryFailureWarns ==
    AgentKnown =>
        /\ Cardinality(ProfileFailedAt)
              = Cardinality({i \in Indexes(outcomes) : outcomes[i] # "returns_model"})
        /\ \A k \in ProfileFailedAt : log[k].level = "warning" /\ log[k].agent = agent_type

\* C12 (amended): every candidate whose construction raises has caused, before
\* the next candidate is tried, exactly one warning naming the failed profile
\* and the agent; a candidate that fails by returning null (a profile absent
\* from config.profiles, a provider returning None) causes no warning.
C12_EveryRaisingFailureWarns ==
    AgentKnown =>
        /\ Cardinality(ProfileFailedAt)
              = Cardinality({i \in Indexes(outcomes) : outcomes[i] \in RaisingOutcomes})
        /\ \A k \in ProfileFailedAt :
              /\ log[k].level = "warning"
              /\ log[k].agent = agent_type
              /\ log[k].err # None
              /\ log[k].err[1].at \in Indexes(outcomes)
              /\ outcomes[log[k].err[1].at] \in RaisingOutcomes
              /\ log[k].profile = CandidateList[log[k].err[1].at]
        /\ \A k, m \in ProfileFailedAt : k < m => log[k].err[1].at < log[m].err[1].at
        /\ \A k \in Indexes(log) :
              log[k].level = "warning" =>
                  log[k].event \in {"ProfileFailed", "PrimaryFailedUsingFallback"}

C12_Witness ==
    /\ pc = "loop"
    /\ AgentKnown
    /\ outcomes = <<"raises_Exception", "returns_none">>
    /\ attempted = <<"A", "B">>
    /\ Len(profile_names) = 3
    /\ profile_names[3] = "Z"
    /\ Cardinality(ProfileFailedAt) = 1

\* C13: for a configured agent create_model returns None only after every
\* candidate of [primary] + fallbacks was attempted and failed: no call has
\* returned None while a candidate was still unattempted.
C13_NoneOnlyAfterExhaustion ==
    (pc = "returned" /\ AgentKnown /\ IsNone(result)) =>
        /\ Len(attempted) = Len(CandidateList)
        /\ idx = Len(CandidateList) + 1
        /\ \A i \in Indexes(CandidateList) :
              /\ attempted[i] = CandidateList[i]
              /\ outcomes[i] \in RaisingOutcomes \cup {"returns_none", "profile_missing"}

C13_Witness ==
    /\ pc = "returned"
    /\ AgentKnown
    /\ IsNone(result)
    /\ attempted = <<"Z", "A", "B">>
    /\ outcomes = <<"profile_missing", "returns_none", "raises_ImportError">>

\* The fallbacks list of a configured agent ([] when None).
FallbacksOf(a) ==
    IF config.agents[a].fallbacks = None THEN <<>> ELSE config.agents[a].fallbacks[1]

\* C14: constructing a ModelFactory has emitted, for every agent and every
\* occurrence of a fallback name absent from config.profiles, one warning
\* naming the agent and that name, and nothing else: no warning for a fallback
\* name that exists, none for a dangling primary profile.
C14_ConstructionWarnsForDanglingFallbacks ==
    pc # "new" =>
        /\ \A k \in Indexes(init_log) :
              /\ init_log[k].level = "warning"
              /\ init_log[k].event = "FallbackNotDefined"
              /\ init_log[k].agent \in DOMAIN config.agents
        /\ \A a \in DOMAIN config.agents : \A f \in ProfileNameSet :
              Cardinality({k \in Indexes(init_log) :
                              init_log[k].agent = a /\ init_log[k].fallback = f})
                 = IF f \in DOMAIN config.profiles THEN 0
                   ELSE Cardinality({i \in Indexes(FallbacksOf(a)) : FallbacksOf(a)[i] = f})

C14_Witness ==
    /\ pc = "idle"
    /\ DOMAIN config.profiles = {"A"}
    /\ "x" \in DOMAIN config.agents
    /\ config.agents["x"].profile = "Z"
    /\ FallbacksOf("x") = <<"A", "B">>
    /\ Len(init_log) = 1
    /\ init_log[1].fallback = "B"
    /\ init_log[1].agent = "x"

\* C15: construction of a ModelFactory always succeeds, whatever dangling
\* fallback or primary references the configuration holds, and the factory is
\* usable afterwards: an agent with a dangling fallback whose primary returns
\* a model resolves to the primary's model.
C15_ConstructionAlwaysSucceeds ==
    /\ pc = "new" => ENABLED ModelFactoryInit
    /\ pc \in {"new", "idle", "loop", "returned"}
    /\ (pc \in {"idle", "returned"} /\ ncalls < MaxCalls) =>
          ENABLED (\E a \in AgentArgs : CreateModelCall(a))
    /\ (pc = "returned" /\ AgentKnown /\ outcomes # <<>> /\ outcomes[1] = "returns_model"
           /\ \E i \in Indexes(FallbacksOf(agent_type)) :
                 FallbacksOf(agent_type)[i] \notin DOMAIN config.profiles) =>
          /\ init_log # <<>>
          /\ result = ModelOfCandidate(1)

C15_Witness ==
    /\ pc = "returned"
    /\ AgentKnown
    /\ config.agents[agent_type].profile = "A"
    /\ FallbacksOf(agent_type) = <<"Z">>
    /\ Len(init_log) = 1
    /\ result = ModelOfCandidate(1)

\* C16: when every candidate of a configured agent is absent from
\* config.profiles (no provider is ever called), create_model does not raise,
\* returns None and its last log record is an error naming the agent.
C16_AllProfilesMissing ==
    (AgentKnown /\ \A i \in Indexes(CandidateList) :
                       CandidateList[i] \notin DOMAIN config.profiles) =>
        /\ pc # "raised"
        /\ constructed = <<>>
        /\ IsNone(last_error)
        /\ pc = "returned" =>
              /\ IsNone(result)
              /\ Len(outcomes) = Len(CandidateList)
              /\ FinalRecord.level = "error"
              /\ FinalRecord.event = "NoValidProfiles"
              /\ FinalRecord.agent = agent_type

C16_Witness ==
    /\ pc = "returned"
    /\ AgentKnown
    /\ config.profiles = <<>>
    /\ outcomes = <<"profile_missing", "profile_missing", "profile_missing">>
    /\ IsNone(result)
    /\ FinalRecord.agent = "x"

\* The log events of a provider lookup, construction or provider error.
ProviderEvents ==
    {"AttemptingCreate", "ImportedProvider", "UnsupportedProvider",
     "NoCreateModel", "UnexpectedError", "ProfileFailed"}

\* C17: every attempt on a candidate whose profile name is absent from
\* config.profiles logs exactly the error 'Profile not found: <name>': no
\* provider is looked up or invoked for it and nothing reports it as a
\* provider error.
C17_MissingProfileLogsOnlyProfileNotFound ==
    [][(pc = "loop" /\ idx <= Len(profile_names)
           /\ profile_names[idx] \notin DOMAIN config.profiles
           /\ attempted' # attempted) =>
          /\ attempted' = Append(attempted, profile_names[idx])
          /\ log' = Append(log, [level |-> "error", event |-> "ProfileNotFound",
                                 agent |-> "", profile |-> profile_names[idx],
                                 fallback |-> "", provider |-> "", err |-> <<>>])
          /\ constructed' = constructed
          /\ last_error' = last_error
          /\ pc' = "loop"]_vars

C17_Witness ==
    /\ pc = "returned"
    /\ AgentKnown
    /\ attempted = <<"A", "Z">>
    /\ outcomes = <<"raises_Exception", "profile_missing">>
    /\ constructed = <<"A">>
    /\ log[Len(log) - 1].event = "ProfileNotFound"
    /\ log[Len(log) - 1].profile = "Z"
    /\ Cardinality({k \in Indexes(log) : log[k].event \in ProviderEvents}) = 4

\* C18: the provider failure modes are kept apart per candidate: a candidate
\* is reported as 'unsupported provider' only when the import of its provider
\* module failed, and whenever the provider's create_model was invoked and
\* raised (ImportError and AttributeError included) the candidate is reported
\* as a construction failure wrapping the original cause.
C18_FailureModesKeptApart ==
    AgentKnown =>
        \A k \in ProfileFailedAt :
            LET e == log[k].err[1]
                o == outcomes[e.at]
            IN  /\ e.msg = "UnsupportedProvider" => o = "import_fails"
                /\ o \in {"raises_ImportError", "raises_AttributeError", "raises_Exception"} =>
                      /\ e.type = "RuntimeError"
                      /\ e.msg = "UnexpectedError"
                      /\ e.cause_msg = "create_model"

(* --------------------------------------------- a call run on its own *)

\* The for loop of one create_model call that starts with no last error,
\* fed the provider outcomes `outs` one per attempt: the locals and the log
\* after the last of them (or at the attempt that ended the call).
RECURSIVE RunLoop(_, _, _, _, _)
RunLoop(cfg, a, names, outs, st) ==
    IF st.done \/ st.i > Len(outs) \/ st.i > Len(names) THEN st
    ELSE LET r == CreateModelForProfile(cfg.profiles, names[st.i], outs[st.i], st.i)
             c == Control(r)
             tried == [st EXCEPT !.attempted = Append(st.attempted, names[st.i])]
         IN  IF c = "return"
             THEN [tried EXCEPT
                      !.log = st.log \o r.logs \o <<SuccessLog(names[st.i], cfg.agents[a], a)>>,
                      !.result = r.model, !.done = TRUE]
             ELSE IF c = "next"
             THEN RunLoop(cfg, a, names, outs,
                          [tried EXCEPT !.log = st.log \o r.logs, !.i = st.i + 1])
             ELSE IF c = "except"
             THEN RunLoop(cfg, a, names, outs,
                          [tried EXCEPT
                              !.log = st.log \o r.logs
                                         \o <<ProfileFailedLog(names[st.i], a, Get(r.err))>>,
                              !.last_error = r.err, !.i = st.i + 1])
             ELSE [tried EXCEPT !.log = st.log \o r.logs, !.done = TRUE, !.raised = TRUE]

FreshLocals ==
    [i |-> 1, log |-> <<>>, last_error |-> None, result |-> None,
     attempted |-> <<>>, done |-> FALSE, raised |-> FALSE]

\* The call in progress after the attempts `outs`.
RunPartial(cfg, a, outs) ==
    RunLoop(cfg, a, BuildProfileNames(cfg.agents[a]), outs, FreshLocals)

\* The finished call create_model(a) on a factory that has served no other
\* call, its attempts meeting the provider outcomes `outs`.
RunAlone(cfg, a, outs) ==
    IF a \notin DOMAIN cfg.agents
    THEN [FreshLocals EXCEPT !.log = <<AgentNotFoundLog(a)>>, !.done = TRUE]
    ELSE LET st == RunPartial(cfg, a, outs)
         IN  IF st.done THEN st
             ELSE [st EXCEPT !.log = Append(st.log, FinalLog(a, st.last_error)),
                             !.done = TRUE]

\* C19: create_model keeps no state between calls: whatever calls the factory
\* served before, a finished call's result, logged records, attempts and last
\* error are those of the same call (same agent name, same per-candidate
\* provider outcomes) made on a factory that served no call before; so two
\* calls with the same agent name and outcomes give the same result.
C19_CallsAreStateless ==
    pc = "returned" =>
        LET alone == RunAlone(config, agent_type, outcomes)
        IN  /\ result = alone.result
            /\ log = alone.log
            /\ attempted = alone.attempted
            /\ last_error = alone.last_error
            /\ ~alone.raised

C19_Witness ==
    /\ pc = "returned"
    /\ ncalls = 2
    /\ AgentKnown
    /\ outcomes = <<"returns_none", "profile_missing">>
    /\ FinalRecord.event = "NoValidProfiles"

(* ------------------------------------- concurrent calls on one factory *)

\* Threads calling create_model on the same factory; each call has its own
\* locals, the configuration is shared. A step is one candidate attempt.
Callers == {"c1", "c2"}

\* Configurations of the concurrent runs: x has primary A and one fallback.
ConcurrentConfigs ==
    {cfg \in Config :
        /\ DOMAIN cfg.profiles = {"A", "B"}
        /\ DOMAIN cfg.agents = {"x"}
        /\ cfg.agents["x"].profile = "A"
        /\ cfg.agents["x"].fallbacks \in {Some(<<"B">>), Some(<<"Z">>), Some(<<"A">>)}}

IdleFrame ==
    [pc |-> "idle", agent_type |-> "", agent_config |-> None, profile_names |-> <<>>,
     idx |-> 1, last_error |-> None, result |-> None, log |-> <<>>,
     attempted |-> <<>>, outcomes |-> <<>>]

\* A variant of FrameLastError for a last error kept on the factory object:
\* a caller reads the error some caller recorded.
FrameLastErrorShared(c) ==
    LET holders == {d \in Callers : frames[d].last_error # None}
    IN  IF holders = {} THEN None
        ELSE frames[CHOOSE d \in holders : \A h \in holders : frames[d].idx >= frames[h].idx].last_error

\* last_error is a local variable of create_model: a caller reads its own.
FrameLastError(c) == frames[c].last_error

ConcInit ==
    /\ config \in ConcurrentConfigs
    /\ frames = [c \in Callers |-> IdleFrame]
    /\ pc = "idle"
    /\ init_log = ValidateFallbackConfiguration(config)
    /\ agent_type = ""
    /\ agent_config = None
    /\ profile_names = <<>>
    /\ idx = 1
    /\ last_error = None
    /\ result = None
    /\ escaped = None
    /\ log = <<>>
    /\ attempted = <<>>
    /\ outcomes = <<>>
    /\ constructed = <<>>
    /\ ncalls = 0
    /\ fs = <<>>
    /\ env = <<>>
    /\ op = <<>>

SequentialVars ==
    <<config, pc, agent_type, agent_config, profile_names, idx, last_error, result,
      escaped, log, init_log, attempted, outcomes, constructed, ncalls>>

\* Caller c enters create_model(a), up to the for loop.
ConcCall(c, a) ==
    /\ frames[c].pc \in {"idle", "returned"}
    /\ LET ac == DictGet(config.agents, a)
           fresh == [IdleFrame EXCEPT !.agent_type = a, !.agent_config = ac]
       IN  frames' = [frames EXCEPT ![c] =
             IF IsNone(ac)
             THEN [fresh EXCEPT !.log = <<AgentNotFoundLog(a)>>, !.pc = "returned"]
             ELSE [fresh EXCEPT !.profile_names = BuildProfileNames(Get(ac)),
                                !.pc = "loop"]]
    /\ UNCHANGED <<SequentialVars, FileVars>>

\* Caller c runs one iteration of its for loop.
ConcAttempt(c, outcome) ==
    /\ frames[c].pc = "loop"
    /\ frames[c].idx <= Len(frames[c].profile_names)
    /\ LET f == frames[c]
           profile_name == f.profile_names[f.idx]
           r == CreateModelForProfile(config.profiles, profile_name, outcome, f.idx)
           ctl == Control(r)
           tried == [f EXCEPT !.attempted = Append(f.attempted, profile_name),
                              !.outcomes = Append(f.outcomes, r.path)]
       IN  frames' = [frames EXCEPT ![c] =
             IF ctl = "return"
             THEN [tried EXCEPT
                      !.log = f.log \o r.logs
                                 \o <<SuccessLog(profile_name, Get(f.agent_config), f.agent_type)>>,
                      !.result = r.model, !.pc = "returned"]
             ELSE IF ctl = "next"
             THEN [tried EXCEPT !.log = f.log \o r.logs, !.idx = f.idx + 1]
             ELSE IF ctl = "except"
             THEN [tried EXCEPT
                      !.log = f.log \o r.logs
                                 \o <<ProfileFailedLog(profile_name, f.agent_type, Get(r.err))>>,
                      !.last_error = r.err, !.idx = f.idx + 1]
             ELSE [tried EXCEPT !.log = f.log \o r.logs, !.pc = "raised"]]
    /\ UNCHANGED <<SequentialVars, FileVars>>

\* Caller c leaves its loop with no candidate left.
ConcExhausted(c) ==
    /\ frames[c].pc = "loop"
    /\ frames[c].idx > Len(frames[c].profile_names)
    /\ frames' = [frames EXCEPT ![c] =
          [@ EXCEPT !.log = Append(@, FinalLog(frames[c].agent_type, FrameLastError(c))),
                    !.result = None, !.pc = "returned"]]
    /\ UNCHANGED <<SequentialVars, FileVars>>

ConcNext ==
    \/ \E c \in Callers : \E a \in AgentArgs : ConcCall(c, a)
    \/ \E c \in Callers : \E outcome \in Outcomes : ConcAttempt(c, outcome)
    \/ \E c \in Callers : ConcExhausted(c)

SpecConcurrent == ConcInit /\ [][ConcNext]_vars

\* C20: when create_model calls on one factory are interleaved at the
\* granularity of candidate attempts, each call's result, attempt order, log
\* records and last error are those of the same call run alone with the same
\* provider outcomes, and while it runs its candidate index and last error
\* are its own.
C20_InterleavedCallsAreIndependent ==
    \A c \in Callers :
        LET f == frames[c]
        IN  /\ f.pc # "raised"
            /\ f.pc = "returned" =>
                  LET alone == RunAlone(config, f.agent_type, f.outcomes)
                  IN  /\ f.result = alone.result
                      /\ f.attempted = alone.attempted
                      /\ f.last_error = alone.last_error
                      /\ f.log = alone.log
            /\ f.pc = "loop" =>
                  LET part == RunPartial(config, f.agent_type, f.outcomes)
                  IN  /\ ~part.done
                      /\ f.idx = part.i
                      /\ f.attempted = part.attempted
                      /\ f.last_error = part.last_error
                      /\ f.log = part.log

C20_Witness ==
    /\ frames["c1"].pc = "returned"
    /\ frames["c1"].outcomes = <<"returns_none", "returns_none">>
    /\ frames["c1"].log[Len(frames["c1"].log)].event = "NoValidProfiles"
    /\ frames["c2"].pc = "loop"
    /\ frames["c2"].idx = 2
    /\ frames["c2"].last_error # None

\* How many times x occurs in seq.
Occurrences(seq, x) == Cardinality({i \in Indexes(seq) : seq[i] = x})

\* C21: provided every provider construction returns or raises, every
\* create_model call that entered its loop ends (returns), at no time has it
\* made more than 1 + len(fallbacks) attempts, and no profile name has been
\* attempted more often than it occurs in [primary] + fallbacks.
C21_EveryCallTerminates ==
    /\ [](AgentKnown =>
            /\ Len(attempted) <= 1 + Len(FallbacksOf(agent_type))
            /\ \A p \in ProfileNameSet :
                  Occurrences(attempted, p) <= Occurrences(CandidateList, p))
    /\ (pc = "loop") ~> (pc = "returned")

C21_Witness ==
    /\ pc = "returned"
    /\ AgentKnown
    /\ FallbacksOf(agent_type) = <<"A", "A">>
    /\ attempted = <<"A", "A", "A">>
    /\ outcomes = <<"returns_none", "raises_Exception", "returns_none">>

\* C22 as stated: for an agent with no fallbacks (None or an empty list)
\* exactly one candidate, the primary, is attempted, and whenever it fails
\* create_model returns None and its final record is the 'All profiles failed'
\* error for that agent.
C22_NoFallbacksFailureLogsAllProfilesFailed ==
    (pc = "returned" /\ AgentKnown /\ FallbacksOf(agent_type) = <<>>) =>
        /\ attempted = <<config.agents[agent_type].profile>>
        /\ outcomes[1] # "returns_model" =>
              /\ IsNone(result)
              /\ FinalRecord.level = "error"
              /\ FinalRecord.event = "AllProfilesFailed"
              /\ FinalRecord.agent = agent_type

\* C22 (amended): for an agent with no fallbacks (None or an empty list) the
\* candidate list is the primary alone and exactly one candidate is attempted;
\* if it fails create_model returns None and its final record is an error for
\* that agent: 'All profiles failed' when the primary's construction raised,
\* 'No valid profiles found' when the primary's profile is missing or its
\* provider returned None.
C22_NoFallbacksTriesPrimaryOnly ==
    (AgentKnown /\ FallbacksOf(agent_type) = <<>>) =>
        /\ profile_names = <<config.agents[agent_type].profile>>
        /\ Len(attempted) <= 1
        /\ pc = "returned" =>
              /\ attempted = <<config.agents[agent_type].profile>>
              /\ Len(outcomes) = 1
              /\ constructed \in {<<>>, attempted}
              /\ IsNone(result) <=> outcomes[1] # "returns_model"
              /\ IsNone(result) =>
                    /\ FinalRecord.level = "error"
                    /\ FinalRecord.agent = agent_type
                    /\ FinalRecord.event =
                          IF outcomes[1] \in RaisingOutcomes
                          THEN "AllProfilesFailed" ELSE "NoValidProfiles"

C22_Witness ==
    /\ pc = "returned"
    /\ AgentKnown
    /\ config.agents[agent_type].fallbacks = Some(<<>>)
    /\ outcomes = <<"returns_none">>
    /\ IsNone(result)
    /\ FinalRecord.event = "NoValidProfiles"

\* C26: _create_model_for_profile raises ValueError when the provider module
\* cannot be imported and when the imported module has no create_model (the
\* attribute is missing or None), and raises RuntimeError only for other
\* errors; read off the exception each failed candidate handed to the loop.
C26_MissingCreateModelRaisesValueError ==
    AgentKnown =>
        \A k \in ProfileFailedAt :
            LET e == log[k].err[1]
                o == outcomes[e.at]
            IN  /\ o \in {"import_fails", "attr_missing", "attr_none"} =>
                      e.type = "ValueError"
                /\ e.type = "RuntimeError" =>
                      o \notin {"import_fails", "attr_missing", "attr_none"}

\* C27: no step of the factory, its construction or any create_model call,
\* changes the configuration: profiles, agents and every agent's fallbacks
\* list are after the step what they were before it.
C27_ConfigurationIsNeverChanged ==
    [][config' = config]_vars

C27_Witness ==
    /\ pc = "returned"
    /\ ncalls = 2
    /\ AgentKnown
    /\ FallbacksOf(agent_type) = <<"B", "Z">>
    /\ attempted = <<"A", "B", "Z">>
    /\ IsNone(result)
    /\ init_log # <<>>

\* C28: a create_model call whose primary candidate returns a model at the
\* first attempt has logged no warning and no error record.
C28_PrimarySuccessLogsNoWarningOrError ==
    (pc = "returned" /\ AgentKnown /\ outcomes = <<"returns_model">>) =>
        /\ log # <<>>
        /\ \A k \in Indexes(log) : log[k].level \notin {"warning", "error"}
        /\ FinalRecord.event = "UsingPrimary"

C28_Witness ==
    /\ pc = "returned"
    /\ AgentKnown
    /\ outcomes = <<"returns_model">>
    /\ FallbacksOf(agent_type) = <<"Z", "B">>
    /\ Len(log) = 3

\* The positions in the log of the two exhaustion errors.
ExhaustionAt ==
    {k \in Indexes(log) : log[k].event \in {"AllProfilesFailed", "NoValidProfiles"}}

\* C29: a finished call for a configured agent that returned None has logged
\* exactly one exhaustion error, as its last record: 'All profiles failed'
\* (with the last error) if some candidate raised, else 'No valid profiles
\* found'; a call in progress or one that returned a model has logged neither.
C29_ExactlyOneExhaustionError ==
    AgentKnown =>
        IF pc = "returned" /\ IsNone(result)
        THEN /\ ExhaustionAt = {Len(log)}
             /\ FinalRecord.level = "error"
             /\ FinalRecord.agent = agent_type
             /\ FinalRecord.event =
                   IF \E i \in Indexes(outcomes) : outcomes[i] \in RaisingOutcomes
                   THEN "AllProfilesFailed" ELSE "NoValidProfiles"
             /\ FinalRecord.event = "AllProfilesFailed" <=> FinalRecord.err # None
        ELSE ExhaustionAt = {}

C29_Witness ==
    /\ pc = "returned"
    /\ AgentKnown
    /\ IsNone(result)
    /\ outcomes = <<"attr_missing", "returns_none", "profile_missing">>
    /\ FinalRecord.event = "AllProfilesFailed"
    /\ Len(log) = 8

(* ------------------------------------------------- configuration files *)

\* Config.max_history / Config.conversation_timeout when no file or
\* environment value is given.
DefaultMaxHistory == 100
DefaultConversationTimeout == 300

\* What a config.yaml holds, as far as load_config looks at it.
\* kind: "malformed" (the YAML loader raises), "empty" (it returns None or
\* {}), "list" (a non-empty document that is no mapping), "mapping".
\* max_history / conversation_timeout: the mapping's value, if it has the key.
\* profiles / agents: the shape of that section, see SectionShapes.
Document(kind, max_history, conversation_timeout, profiles, agents) ==
    [kind |-> kind, max_history |-> max_history,
     conversation_timeout |-> conversation_timeout,
     profiles |-> profiles, agents |-> agents]

\* A profiles / agents section: absent; a mapping of complete entries; a
\* mapping with an entry that lacks a required key; a mapping with an entry
\* that is no mapping (a string, None); no mapping at all (a list, None).
SectionShapes ==
    {"absent", "valid", "entry_lacks_key", "entry_not_mapping", "not_mapping"}

\* config_data = {}
EmptyConfigData == Document("mapping", None, None, "absent", "absent")

\* A file cut short: nothing in it.
TruncatedDocument == Document("empty", None, None, "absent", "absent")

\* The template save_config_template writes.
TemplateDocument == Document("mapping", Some(100), Some(300), "valid", "valid")

\* The files a user may have.
Documents ==
    {Document("malformed", None, None, "absent", "absent"),
     TruncatedDocument,
     Document("list", None, None, "absent", "absent"),
     Document("mapping", Some(50), Some(60), "valid", "valid"),
     Document("mapping", Some(20), None, "valid", "valid"),
     Document("mapping", None, None, "valid", "absent"),
     Document("mapping", None, None, "entry_lacks_key", "valid"),
     Document("mapping", None, None, "valid", "entry_not_mapping"),
     Document("mapping", None, None, "valid", "entry_lacks_key"),
     Document("mapping", None, Some(60), "not_mapping", "valid")}

\* The file system: whether the XDG config directory exists, and the content
\* (Optional) of the XDG config.yaml, of ./config.yaml and of its backup.
FileSystems ==
    {f \in [dir : BOOLEAN,
            xdg : {None} \cup {Some(d) : d \in Documents},
            legacy : {None} \cup {Some(d) : d \in Documents},
            backup : {None}] :
        f.xdg # None => f.dir}

\* One logger call of settings.py / config_migration.py.
FileLog(level, event) == [level |-> level, event |-> event]

\* safe_load_yaml(path): raises on a malformed file, returns None for an
\* empty one, else the document.
SafeLoadYaml(doc) ==
    [raised |-> doc.kind = "malformed",
     value |-> IF doc.kind \in {"malformed", "empty"} THEN None ELSE Some(doc)]

(* ------------------------------------------------ strings, int(string) *)

\* A string is a sequence of characters.
RECURSIVE StripLeft(_)
StripLeft(s) == IF s # <<>> /\ Head(s) = " " THEN StripLeft(Tail(s)) ELSE s

RECURSIVE StripRight(_)
StripRight(s) ==
    IF s # <<>> /\ s[Len(s)] = " " THEN StripRight(SubSeq(s, 1, Len(s) - 1)) ELSE s

\* str.strip()
Strip(s) == StripRight(StripLeft(s))

LowerChar(c) ==
    CASE c = "Y" -> "y" [] c = "E" -> "e" [] c = "S" -> "s" [] c = "N" -> "n"
      [] OTHER -> c

\* str.lower()
Lower(s) == [i \in 1..Len(s) |-> LowerChar(s[i])]

DigitChars == <<"0", "1", "2", "3", "4", "5", "6", "7", "8", "9">>

IsDigit(c) == \E i \in 1..Len(DigitChars) : DigitChars[i] = c

DigitValue(c) == (CHOOSE i \in 1..Len(DigitChars) : DigitChars[i] = c) - 1

RECURSIVE DigitsValue(_, _)
DigitsValue(s, acc) ==
    IF s = <<>> THEN acc ELSE DigitsValue(Tail(s), acc * 10 + DigitValue(Head(s)))

\* int(s): Some(n), or None where Python raises ValueError. Surrounding
\* blanks are dropped, one sign is allowed, at least one digit is required.
PyInt(s) ==
    LET t == Strip(s)
        signed == t # <<>> /\ Head(t) \in {"+", "-"}
        digits == IF signed THEN Tail(t) ELSE t
    IN  IF digits = <<>> \/ \E i \in 1..Len(digits) : ~IsDigit(digits[i])
        THEN None
        ELSE Some(IF signed /\ Head(t) = "-"
                  THEN 0 - DigitsValue(digits, 0) ELSE DigitsValue(digits, 0))

\* Values of TMUXBOT_MAX_HISTORY and TMUXBOT_CONVERSATION_TIMEOUT: unset
\* (None) or a string.
MaxHistoryEnvValues ==
    {None, Some(<<>>), Some(<<"4", "2">>), Some(<<"0">>), Some(<<"-", "5">>),
     Some(<<" ", "7", " ">>), Some(<<"a", "b", "c">>)}

ConversationTimeoutEnvValues ==
    {None, Some(<<"+", "9">>), Some(<<"1", ".", "5">>)}

Environments ==
    [max_history : MaxHistoryEnvValues, conversation_timeout : ConversationTimeoutEnvValues]

(* ---------------------------------------------------------- load_config *)

\* A variant of LegacyConsulted that turns to ./config.yaml whatever the XDG
\* file gave.
LegacyConsultedAlways(config_file_loaded) == TRUE

\* `if not config_file_loaded`
LegacyConsulted(config_file_loaded) == IsNone(config_file_loaded)

\* One `if file.exists(): try: yaml_data = safe_load_yaml(file) ...` block
\* of load_config on the file at `location`: the data taken from it (Optional)
\* and the records logged.
ReadConfigFile(file, location) ==
    IF IsNone(file) THEN [data |-> None, logs |-> <<>>]
    ELSE LET yaml_data == SafeLoadYaml(Get(file))
         IN  IF yaml_data.raised
             THEN [data |-> None,
                   logs |-> <<FileLog("warning", IF location = "xdg" THEN "FailedToLoadXdg"
                                                 ELSE "FailedToLoadLegacy")>>]
             ELSE IF IsNone(yaml_data.value)
             THEN [data |-> None, logs |-> <<>>]
             ELSE [data |-> yaml_data.value,
                   logs |-> IF location = "xdg"
                            THEN <<FileLog("info", "LoadedFromXdg")>>
                            ELSE <<FileLog("warning", "DeprecatedLegacyLocation"),
                                   FileLog("warning", "PleaseMigrate"),
                                   FileLog("warning", "RunMigrationScript")>>]

\* The file part of load_config: config_data, config_file_loaded, the
\* locations whose existence was tested, the records logged.
LoadFiles(f) ==
    LET x == ReadConfigFile(f.xdg, "xdg")
        after_xdg == [config_data |-> IF IsNone(x.data) THEN EmptyConfigData ELSE Get(x.data),
                      config_file_loaded |-> IF IsNone(x.data) THEN None ELSE Some("xdg"),
                      consulted |-> <<"xdg">>,
                      logs |-> x.logs]
    IN  IF LegacyConsulted(after_xdg.config_file_loaded)
        THEN LET l == ReadConfigFile(f.legacy, "legacy")
             IN  [config_data |-> IF IsNone(l.data) THEN after_xdg.config_data
                                  ELSE Get(l.data),
                  config_file_loaded |-> IF IsNone(l.data) THEN after_xdg.config_file_loaded
                                         ELSE Some("legacy"),
                  consulted |-> <<"xdg", "legacy">>,
                  logs |-> x.logs \o l.logs]
        ELSE after_xdg

\* A variant of AcceptEnvValue that lets zero through.
AcceptEnvValueNonNegative(value) == value >= 0

\* `if history_value > 0` / `if timeout_value > 0`
AcceptEnvValue(value) == value > 0

\* config_data[key] = value
SetKey(config_data, key, value) ==
    IF key = "max_history" THEN [config_data EXCEPT !.max_history = Some(value)]
    ELSE [config_data EXCEPT !.conversation_timeout = Some(value)]

\* One environment block of load_config, for the variable that sets `key`,
\* on st = [config_data, raised, logs]. Assigning into config_data raises
\* TypeError when the loaded document is a list.
ApplyEnv(st, key, env_value) ==
    IF ~IsNone(st.raised) THEN st
    ELSE IF IsNone(env_value) \/ Get(env_value) = <<>> THEN st
    ELSE LET parsed == PyInt(Get(env_value))
         IN  IF IsNone(parsed)
             THEN [st EXCEPT !.logs = Append(@, FileLog("warning",
                      IF key = "max_history" THEN "InvalidMaxHistory"
                      ELSE "InvalidConversationTimeout"))]
             ELSE IF ~AcceptEnvValue(Get(parsed)) THEN st
             ELSE IF st.config_data.kind # "mapping"
             THEN [st EXCEPT !.raised = Some("TypeError")]
             ELSE [st EXCEPT !.config_data = SetKey(@, key, Get(parsed))]

\* Converting a profiles / agents section to ProfileConfig / AgentConfig
\* objects: "ok" or the exception raised.
ConvertSection(shape) ==
    CASE shape = "entry_lacks_key" -> "KeyError"
      [] shape = "entry_not_mapping" -> "TypeError"
      [] shape = "not_mapping" -> "AttributeError"
      [] OTHER -> "ok"

\* `except (TypeError, ValueError)`
CaughtByLoadConfig(exception) == exception \in {"TypeError", "ValueError"}

\* The try block that builds the Config object: "ok" or the exception raised.
BuildOutcome(config_data) ==
    IF config_data.kind # "mapping" THEN "AttributeError"
    ELSE IF ConvertSection(config_data.profiles) # "ok"
    THEN ConvertSection(config_data.profiles)
    ELSE ConvertSection(config_data.agents)

\* Config(profiles, agents, max_history, conversation_timeout)
BuiltConfig(config_data) ==
    [profiles |-> config_data.profiles,
     agents |-> config_data.agents,
     max_history |-> IF IsNone(config_data.max_history) THEN DefaultMaxHistory
                     ELSE Get(config_data.max_history),
     conversation_timeout |-> IF IsNone(config_data.conversation_timeout)
                              THEN DefaultConversationTimeout
                              ELSE Get(config_data.conversation_timeout)]

\* load_config() on file system f and environment e: the Config returned
\* (Optional), the exception that left it (Optional), what it logged, which
\* file it loaded, which locations it tested, and config_data after the
\* environment blocks.
LoadConfigResult(f, e) ==
    LET files == LoadFiles(f)
        st0 == [config_data |-> files.config_data, raised |-> None, logs |-> files.logs]
        st1 == ApplyEnv(st0, "max_history", e.max_history)
        st2 == ApplyEnv(st1, "conversation_timeout", e.conversation_timeout)
        base == [ret |-> None, raised |-> st2.raised, logs |-> st2.logs,
                 loaded |-> files.config_file_loaded, consulted |-> files.consulted,
                 config_data |-> st2.config_data]
    IN  IF ~IsNone(st2.raised) THEN base
        ELSE LET outcome == BuildOutcome(st2.config_data)
             IN  IF outcome = "ok"
                 THEN [base EXCEPT !.ret = Some(BuiltConfig(st2.config_data))]
                 ELSE IF CaughtByLoadConfig(outcome)
                 THEN [base EXCEPT !.logs = Append(@, FileLog("warning", "FailedToLoadConfig"))]
                 ELSE [base EXCEPT !.raised = Some(outcome)]

(* ------------------------------ ensure_config_directory, the template *)

\* What the file system does to a call, besides letting it through.
MkdirFaults == {"mkdir_PermissionError", "mkdir_OSError"}
SaveFaults == {"none", "open_fails", "write_fails"} \cup MkdirFaults
CopyFaults == {"copy_PermissionError", "copy_OSError"}
BackupFaults == {"backup_PermissionError", "backup_OSError"}
MigrateFaults ==
    {"none", "copy_interrupted"} \cup MkdirFaults \cup CopyFaults \cup BackupFaults

\* ensure_config_directory(): mkdir(parents, exist_ok) of the XDG config
\* directory; when that fails, a warning and the current directory instead.
EnsureConfigDirectory(f, fault) ==
    IF ~f.dir /\ fault \in MkdirFaults
    THEN [fs |-> f, ret |-> "cwd",
          logs |-> <<FileLog("warning", IF fault = "mkdir_PermissionError"
                                        THEN "PermissionDeniedCreatingDir"
                                        ELSE "FailedToCreateDir")>>]
    ELSE [fs |-> [f EXCEPT !.dir = TRUE], ret |-> "config_dir",
          logs |-> <<FileLog("debug", "DirectoryEnsured")>>]

\* save_config_template(): the file system after it and the records logged.
\* open(path, "w") fails when the directory is missing or the file cannot be
\* opened, and truncates the file before anything is written.
SaveConfigTemplateResult(f, fault) ==
    LET d == EnsureConfigDirectory(f, fault)
        failed == FileLog("warning", "FailedToCreateTemplate")
    IN  IF ~d.fs.dir \/ fault = "open_fails"
        THEN [fs |-> d.fs, logs |-> Append(d.logs, failed)]
        ELSE IF fault = "write_fails"
        THEN [fs |-> [d.fs EXCEPT !.xdg = Some(TruncatedDocument)],
              logs |-> Append(d.logs, failed)]
        ELSE [fs |-> [d.fs EXCEPT !.xdg = Some(TemplateDocument)],
              logs |-> Append(d.logs, FileLog("info", "CreatedTemplate"))]

(* ------------------------------------------------------- migrate_config *)

\* A variant of NeedsMigration that does not look at the XDG location.
NeedsMigrationIgnoringXdg(f) == ~IsNone(f.legacy)

\* check_migration_needed(): legacy_path.exists() and not xdg_path.exists()
NeedsMigration(f) == ~IsNone(f.legacy) /\ IsNone(f.xdg)

\* What the user may type at the prompt.
Answers == {<<"Y", "e", "s", " ">>, <<"n">>, <<>>}

\* response = input(...).lower().strip(); response in ['y', 'yes']
Confirmed(answer) == Strip(Lower(answer)) \in {<<"y">>, <<"y", "e", "s">>}

\* The except clause that takes a failure: PermissionError, or Exception.
MigrationErrorLog(fault) ==
    IF fault \in {"mkdir_PermissionError", "copy_PermissionError", "backup_PermissionError"}
    THEN FileLog("error", "PermissionDenied")
    ELSE FileLog("error", "MigrationFailed")

\* A variant of Copy2 that moves the file: the source is gone afterwards.
Copy2Moving(f, source, target) ==
    [f EXCEPT ![target] = f[source], ![source] = None]

\* A variant of Copy2 that creates the target without the source's content.
Copy2Empty(f, source, target) ==
    [f EXCEPT ![target] = Some(TruncatedDocument)]

\* shutil.copy2(source, target): the target holds the source's content, the
\* source is left as it is.
Copy2(f, source, target) == [f EXCEPT ![target] = f[source]]

\* migrate_config from the line 'Migration needed' on: the prompt, then
\* directory, copy, check, backup inside the try block.
DoMigration(f, interactive, backup, answer, fault) ==
    LET needed == FileLog("info", "MigrationNeeded")
    IN  IF interactive /\ ~Confirmed(answer)
        THEN [ret |-> FALSE, fs |-> f,
              logs |-> <<needed, FileLog("info", "CancelledByUser")>>]
        ELSE LET d == EnsureConfigDirectory(f, fault)
                 ensured == <<needed>> \o d.logs \o <<FileLog("info", "DirectoryEnsured")>>
                 copied == Copy2(d.fs, "legacy", "xdg")
             IN  IF ~d.fs.dir \/ fault \in CopyFaults
                 THEN [ret |-> FALSE, fs |-> d.fs,
                       logs |-> Append(ensured, MigrationErrorLog(fault))]
                 ELSE IF fault = "copy_interrupted"
                 THEN [ret |-> FALSE,
                       fs |-> [d.fs EXCEPT !.xdg = Some(TruncatedDocument)],
                       logs |-> Append(ensured, MigrationErrorLog(fault))]
                 ELSE IF backup /\ fault \in BackupFaults
                 THEN [ret |-> FALSE, fs |-> copied,
                       logs |-> ensured \o <<FileLog("info", "Copied"),
                                             MigrationErrorLog(fault)>>]
                 ELSE IF backup
                 THEN [ret |-> TRUE, fs |-> Copy2(copied, "legacy", "backup"),
                       logs |-> ensured \o <<FileLog("info", "Copied"),
                                             FileLog("info", "BackupCreated"),
                                             FileLog("info", "Migrated")>>]
                 ELSE [ret |-> TRUE, fs |-> copied,
                       logs |-> ensured \o <<FileLog("info", "Copied"),
                                             FileLog("info", "Migrated")>>]

\* migrate_config(interactive, backup): the value returned, the file system
\* after it and the records logged.
MigrateConfigResult(f, interactive, backup, answer, fault) ==
    IF ~NeedsMigration(f) /\ IsNone(f.legacy)
    THEN [ret |-> TRUE, fs |-> f, logs |-> <<FileLog("info", "NoLegacyConfig")>>]
    ELSE IF ~NeedsMigration(f) /\ ~IsNone(f.xdg)
    THEN [ret |-> TRUE, fs |-> f,
          logs |-> <<FileLog("info", "XdgAlreadyExists"), FileLog("info", "LegacyConfigPath"),
                     FileLog("info", "XdgConfigPath")>>]
    ELSE DoMigration(f, interactive, backup, answer, fault)

(* ------------------------------------------- the calls on the files *)

FactoryVars ==
    <<config, pc, agent_type, agent_config, profile_names, idx, last_error, result,
      escaped, log, init_log, attempted, outcomes, constructed, ncalls, frames>>

\* One call of settings.py / config_migration.py: its name, its arguments
\* and the faults it meets, what it returned and logged, and the file system
\* it started from.
Call(name, args, out, before) ==
    [name |-> name, args |-> args, out |-> out, before |-> before]

\* No ModelFactory is at work while the files are handled.
FactoryUnused ==
    /\ config = [profiles |-> <<>>, agents |-> <<>>]
    /\ pc = "new"
    /\ agent_type = ""
    /\ agent_config = None
    /\ profile_names = <<>>
    /\ idx = 1
    /\ last_error = None
    /\ result = None
    /\ escaped = None
    /\ log = <<>>
    /\ init_log = <<>>
    /\ attempted = <<>>
    /\ outcomes = <<>>
    /\ constructed = <<>>
    /\ ncalls = 0
    /\ frames = <<>>

SettingsInit ==
    /\ fs \in FileSystems
    /\ env \in Environments
    /\ op = Call("none", <<>>, <<>>, fs)
    /\ FactoryUnused

\* Neither environment variable is set.
NoEnvironment == [max_history |-> None, conversation_timeout |-> None]

MigrationInit ==
    /\ fs \in FileSystems
    /\ env = NoEnvironment
    /\ op = Call("none", <<>>, <<>>, fs)
    /\ FactoryUnused

\* load_config()
LoadConfig ==
    /\ op' = Call("load_config", <<>>, LoadConfigResult(fs, env), fs)
    /\ UNCHANGED <<fs, env, FactoryVars>>

\* save_config_template()
SaveConfigTemplate(fault) ==
    LET r == SaveConfigTemplateResult(fs, fault)
    IN  /\ fs' = r.fs
        /\ op' = Call("save_config_template", [fault |-> fault], r, fs)
        /\ UNCHANGED <<env, FactoryVars>>

\* migrate_config(interactive, backup)
MigrateConfig(interactive, backup, answer, fault) ==
    LET r == MigrateConfigResult(fs, interactive, backup, answer, fault)
    IN  /\ interactive \/ answer = <<>>
        /\ fs' = r.fs
        /\ op' = Call("migrate_config",
                      [interactive |-> interactive, backup |-> backup,
                       answer |-> answer, fault |-> fault], r, fs)
        /\ UNCHANGED <<env, FactoryVars>>

SettingsNext ==
    \/ LoadConfig
    \/ \E fault \in SaveFaults : SaveConfigTemplate(fault)

\* settings.py: load_config and save_config_template in any order.
SpecSettings == SettingsInit /\ [][SettingsNext]_vars

MigrationNext ==
    \E interactive, backup \in BOOLEAN : \E answer \in Answers :
        \E fault \in MigrateFaults : MigrateConfig(interactive, backup, answer, fault)

\* config_migration.py: migrate_config called any number of times.
SpecMigration == MigrationInit /\ [][MigrationNext]_vars

(* ------------------------------------------- claims about the files *)

\* C23: save_config_template only creates the XDG configuration file when
\* none is there: a file that existed before the call has the same content
\* after it.
C23_ExistingFileIsLeftUnchanged ==
    (op.name = "save_config_template" /\ ~IsNone(op.before.xdg)) =>
        fs.xdg = op.before.xdg

\* The file at an Optional location exists and loads to non-empty data.
LoadsToData(file) == file # None /\ file[1].kind \in {"mapping", "list"}

AnyFile == {None} \cup {Some(d) : d \in Documents \cup {TemplateDocument}}

\* C24: whenever the XDG file exists and loads to non-empty data, load_config
\* takes its data from it, does not turn to ./config.yaml, and returns what
\* it would return with any other (or no) legacy file in place; it turns to
\* the legacy file exactly when no XDG file was loaded, and then takes the
\* legacy file's data if that file loads.
C24_XdgTakesPrecedenceOverLegacy ==
    op.name = "load_config" =>
        LET f == op.before
            out == op.out
        IN  /\ LoadsToData(f.xdg) =>
                  /\ out.loaded = Some("xdg")
                  /\ out.config_data.profiles = f.xdg[1].profiles
                  /\ out.config_data.agents = f.xdg[1].agents
                  /\ \A other \in AnyFile :
                        LoadConfigResult([f EXCEPT !.legacy = other], env) = out
            /\ (\E i \in 1..Len(out.consulted) : out.consulted[i] = "legacy")
                  <=> ~LoadsToData(f.xdg)
            /\ (~LoadsToData(f.xdg) /\ LoadsToData(f.legacy)) =>
                  /\ out.loaded = Some("legacy")
                  /\ out.config_data.profiles = f.legacy[1].profiles
            /\ (~LoadsToData(f.xdg) /\ ~LoadsToData(f.legacy)) => out.loaded = None

C24_Witness ==
    /\ op.name = "load_config"
    /\ op.before.xdg = Some(Document("mapping", Some(50), Some(60), "valid", "valid"))
    /\ op.before.legacy = Some(Document("mapping", Some(20), None, "valid", "valid"))
    /\ env = NoEnvironment
    /\ op.out.ret # None
    /\ op.out.ret[1].max_history = 50
    /\ op.out.consulted = <<"xdg">>

\* The integer a sample environment string denotes, if it denotes one.
IntegerNamedBy(s) ==
    CASE s = <<"4", "2">> -> Some(42)
      [] s = <<"0">> -> Some(0)
      [] s = <<"-", "5">> -> Some(-5)
      [] s = <<" ", "7", " ">> -> Some(7)
      [] s = <<"+", "9">> -> Some(9)
      [] OTHER -> None

\* The document load_config took its file values from.
LoadedDocument ==
    IF op.out.loaded = Some("xdg") THEN op.before.xdg[1]
    ELSE IF op.out.loaded = Some("legacy") THEN op.before.legacy[1]
    ELSE EmptyConfigData

\* The value the claim gives a setting: the environment's when it is an
\* integer greater than 0, else the file's, else the default.
SettingPerClaim(env_value, file_value, default) ==
    LET n == IF env_value = None THEN None ELSE IntegerNamedBy(env_value[1])
    IN  IF n # None /\ n[1] > 0 THEN n[1]
        ELSE IF file_value # None THEN file_value[1]
        ELSE default

\* C25: in every Config that load_config returns, max_history and
\* conversation_timeout are the value of TMUXBOT_MAX_HISTORY, respectively
\* TMUXBOT_CONVERSATION_TIMEOUT, exactly when that variable is an integer
\* greater than 0; otherwise (unset, empty, not an integer, zero, negative)
\* the value of the loaded file, or 100 and 300 when the file has none.
C25_EnvOverridesExactlyWhenPositiveInteger ==
    (op.name = "load_config" /\ op.out.ret # None) =>
        /\ op.out.ret[1].max_history
              = SettingPerClaim(env.max_history, LoadedDocument.max_history, 100)
        /\ op.out.ret[1].conversation_timeout
              = SettingPerClaim(env.conversation_timeout,
                                LoadedDocument.conversation_timeout, 300)

C25_Witness ==
    /\ op.name = "load_config"
    /\ env.max_history = Some(<<"0">>)
    /\ env.conversation_timeout = Some(<<"+", "9">>)
    /\ op.out.loaded = Some("legacy")
    /\ op.before.legacy = Some(Document("mapping", Some(20), None, "valid", "valid"))
    /\ op.out.ret # None
    /\ op.out.ret[1].max_history = 20
    /\ op.out.ret[1].conversation_timeout = 9

\* C30: a migrate_config call made when no migration is needed (there is no
\* legacy file, or an XDG file exists) returns True and leaves every file and
\* the directory as they were; no call changes an XDG file that existed.
C30_NoMigrationNeededChangesNothing ==
    op.name = "migrate_config" =>
        /\ (op.before.legacy = None \/ op.before.xdg # None) =>
              /\ op.out.ret = TRUE
              /\ fs = op.before
        /\ op.before.xdg # None => fs.xdg = op.before.xdg

C30_Witness ==
    /\ op.name = "migrate_config"
    /\ op.before.legacy = Some(Document("mapping", Some(20), None, "valid", "valid"))
    /\ op.before.xdg = Some(Document("mapping", Some(50), Some(60), "valid", "valid"))
    /\ op.args.backup
    /\ ~op.args.interactive
    /\ op.out.ret = TRUE
    /\ fs.backup = None
    /\ fs = op.before


\* C31: a migrate_config call that starts with a legacy file and no XDG file
\* and returns True leaves the XDG file with the legacy file's content and
\* the legacy file in place, and has created the backup exactly when backup
\* is True; the migrate_config call that follows it returns True and changes
\* no file.
MigratedBy(call) ==
    /\ call.name = "migrate_config"
    /\ ~IsNone(call.before.legacy)
    /\ IsNone(call.before.xdg)
    /\ call.out.ret

C31_SuccessfulMigrationCopiesAndIsIdempotent ==
    /\ [](MigratedBy(op) =>
            /\ fs.xdg = op.before.legacy
            /\ fs.legacy = op.before.legacy
            /\ (~IsNone(fs.backup) <=> op.args.backup)
            /\ (op.args.backup => fs.backup = op.before.legacy))
    /\ [][(MigratedBy(op) /\ op'.name = "migrate_config")
            => (op'.out.ret /\ fs' = fs)]_vars

\* The call after a migration that made a backup: it found both files with
\* the same content and the backup, and returned True.
C31_Witness ==
    /\ op.name = "migrate_config"
    /\ op.before.xdg = op.before.legacy
    /\ ~IsNone(op.before.xdg)
    /\ op.before.backup = op.before.legacy
    /\ op.out.ret
    /\ fs = op.before


\* C32: no migrate_config call removes or modifies the legacy file: whether
\* the call succeeds, fails or is declined, the legacy file exists afterwards
\* exactly when it existed before the call, with the same content.
C32_LegacyFileIsNeverTouched ==
    [][op'.name = "migrate_config" =>
          /\ fs'.legacy = fs.legacy
          /\ op'.out.fs.legacy = op'.before.legacy
          /\ op'.before = fs]_vars

\* A call that was confirmed at the prompt, copied the legacy file and then
\* failed at the backup: the legacy file is as it was.
C32_Witness ==
    /\ op.name = "migrate_config"
    /\ ~IsNone(op.before.legacy)
    /\ IsNone(op.before.xdg)
    /\ ~op.out.ret
    /\ op.args.interactive
    /\ Confirmed(op.args.answer)
    /\ op.args.fault \in BackupFaults
    /\ ~IsNone(fs.xdg)
    /\ fs.legacy = op.before.legacy


\* C33: whenever migrate_config returns False (the prompt was declined, a
\* permission error, or any other failure of directory creation, copy or
\* backup), the files are as they were before the call: no XDG file and no
\* backup file has been created.
C33_FailedMigrationLeavesNoFile ==
    (op.name = "migrate_config" /\ ~op.out.ret) =>
        /\ fs.xdg = op.before.xdg
        /\ fs.backup = op.before.backup
        /\ fs.legacy = op.before.legacy


\* The configuration data is malformed in the way C34 describes: a profile
\* entry lacks provider, api_key or model, an agent entry lacks profile, or
\* the profiles or agents section is not a mapping.
MalformedSections(config_data) ==
    /\ config_data.kind = "mapping"
    /\ \/ config_data.profiles \in {"entry_lacks_key", "not_mapping"}
       \/ config_data.agents \in {"entry_lacks_key", "not_mapping"}

\* C34: load_config never raises on malformed configuration data: when a
\* profile entry lacks provider, api_key or model, an agent entry lacks
\* profile, or the profiles or agents section is not a mapping, it logs a
\* warning and returns None.
C34_MalformedDataGivesWarningAndNone ==
    op.name = "load_config" =>
        /\ IsNone(op.out.raised)
        /\ MalformedSections(op.out.config_data) =>
              /\ IsNone(op.out.ret)
              /\ \E i \in 1..Len(op.out.logs) :
                    op.out.logs[i] = FileLog("warning", "FailedToLoadConfig")

====
